---------------------------- MODULE Spec2Model ----------------------------
(***************************************************************************)
(* Book-Alchemy: a Flask application over a catalog of authors and books   *)
(* (src/data_models.py) with the request handlers of src/app.py.           *)
(*                                                                         *)
(* State: the two tables, the pending flash message, and the position and  *)
(* locals of one /recommend request.  Requests are handled one at a time:  *)
(* a catalog handler is one action that ends in a redirect, the /recommend *)
(* request is split at the points where it draws a random book and where   *)
(* it calls the cover service, and page_rendered is the page that shows    *)
(* the pending flash message and ends the request.                         *)
(*                                                                         *)
(* The catalog starts empty, as db.create_all() leaves a fresh database    *)
(* (seed_data runs only when the module is the main program).  The GET     *)
(* pages other than /recommend change nothing and are not modelled.        *)
(*                                                                         *)
(* Text is a sequence of one-character strings, so that strip(), isdigit(),*)
(* len() and int() are computed, not assumed.                              *)
(***************************************************************************)
EXTENDS Integers, Sequences, FiniteSets, TLC

VARIABLES
    authors,         \* table "authors": set of rows [id, name]
    books,           \* table "books": set of rows [id, isbn, title, publication_year, rating, author_id]
    flash,           \* (category, message) flashed by the last handler
    pc,              \* "idle", "redirect" (a catalog handler has answered), or the
                     \* position of the /recommend request
    snapshot,        \* recommend: books = Book.query.all()
    selected_book,   \* get_book_recommendation: selected_book ({} before the choice)
    cover_image,     \* get_book_recommendation: cover_image
    calls,           \* outbound HTTP calls of the current /recommend request, each
                     \* with its outcome
    recommendation,  \* value returned by get_book_recommendation ({} is None)
    rendered         \* what recommend() handed to render_template

vars == <<authors, books, flash, pc, snapshot, selected_book, cover_image,
          calls, recommendation, rendered>>

catalogVars == <<authors, books>>
requestLocals == <<snapshot, selected_book, cover_image, calls, recommendation, rendered>>

-----------------------------------------------------------------------------
(* Bounds of the model *)

\* largest primary key handed out in either table
MaxId == 2

-----------------------------------------------------------------------------
(* Text *)

Rep(c, n) == [i \in 1..n |-> c]

\* characters for which str.isdigit() is true; the superscript two is a digit
\* for isdigit() and no decimal for int()
IsDigitChars == {"0", "1", "2", "²"}
DecimalChars == {"0", "1", "2"}
Whitespace == {" "}

DigitValue(c) == CASE c = "0" -> 0 [] c = "1" -> 1 [] c = "2" -> 2

RECURSIVE strip(_)
strip(s) ==
    IF s = <<>> THEN s
    ELSE IF Head(s) \in Whitespace THEN strip(Tail(s))
    ELSE IF s[Len(s)] \in Whitespace THEN strip(SubSeq(s, 1, Len(s) - 1))
    ELSE s

isdigit(s) == Len(s) > 0 /\ \A i \in 1..Len(s) : s[i] \in IsDigitChars

RECURSIVE DecimalValue(_)
DecimalValue(s) ==
    IF s = <<>> THEN 0
    ELSE 10 * DecimalValue(SubSeq(s, 1, Len(s) - 1)) + DigitValue(s[Len(s)])

\* int(s): surrounding whitespace is ignored, anything but decimals raises ValueError
int(s) ==
    LET t == strip(s) IN
    IF Len(t) > 0 /\ \A i \in 1..Len(t) : t[i] \in DecimalChars
    THEN [ok |-> TRUE, value |-> DecimalValue(t)]
    ELSE [ok |-> FALSE, value |-> 0]

-----------------------------------------------------------------------------
(* Tables *)

\* a NULL column value (rating is nullable)
NULL == -1

\* INTEGER PRIMARY KEY: the next rowid is one more than the largest in use
NextId(table) ==
    IF table = {} THEN 1
    ELSE (CHOOSE m \in {r.id : r \in table} : \A r \in table : r.id <= m) + 1

\* Author.name is declared unique=True, nullable=False
AuthorIntegrityError(row) == \E a \in authors : a.name = row.name

\* The constraints Book declares: the primary key, title and author_id NOT NULL
\* (add_book always supplies both) and a foreign key the SQLite connection does
\* not enforce.  isbn is declared nullable, without unique=True.
BookIntegrityError(row) == \E b \in books : b.id = row.id

Flash(category, message) == <<category, message>>
NoFlash == <<>>

-----------------------------------------------------------------------------
(* Form inputs *)

ISBN_A == Rep("1", 13)
ISBN_B == Rep("0", 13)

IsbnInputs ==
    { <<" ">>, ISBN_A, <<" ">> \o ISBN_B \o <<" ">>, Rep("1", 12), Rep("1", 12) \o <<"x">> }

TitleInputs == { <<" ">>, <<"T", " ">> }
YearInputs == { <<"1">> }
AuthorIdInputs == { <<"x">>, <<"1">>, <<"2">> }
NameInputs == { <<" ">>, <<"A">>, <<"B", " ">> }

\* request.form.get("rating"): the submitted text (a missing field reads as None,
\* which the handler treats as the empty text)
RatingInputs ==
    { <<>>, <<"0">>, <<"1">>, <<"0", "1">>, <<"1", "0">>, <<"1", "1">>,
      <<"a">>, <<"1", "a">>, <<" ", "1">>, <<"²">> }

Ids == 1..(MaxId + 1)

-----------------------------------------------------------------------------
(* Catalog handlers *)

Init ==
    /\ authors = {}
    /\ books = {}
    /\ flash = NoFlash
    /\ pc = "idle"
    /\ snapshot = {}
    /\ selected_book = {}
    /\ cover_image = [kind |-> "unset"]
    /\ calls = <<>>
    /\ recommendation = {}
    /\ rendered = {}

\* POST /add_author.  dateAccepted: whether the database layer binds the
\* submitted birthdate text to the Date column or raises at commit.
add_author(nameInput, dateAccepted) ==
    /\ pc = "idle"
    /\ LET name == strip(nameInput)
           new_author == [id |-> NextId(authors), name |-> name]
       IN
       IF name = <<>> THEN
           /\ flash' = Flash("error", "Author name is required.")
           /\ UNCHANGED authors
       ELSE IF ~dateAccepted THEN
           /\ flash' = Flash("error", "Error adding author")
           /\ UNCHANGED authors
       ELSE IF AuthorIntegrityError(new_author) THEN
           /\ flash' = Flash("error", "Error: Author could not be added due to a database issue.")
           /\ UNCHANGED authors
       ELSE
           /\ new_author.id <= MaxId
           /\ authors' = authors \cup {new_author}
           /\ flash' = Flash("success", "Author added successfully!")
    /\ pc' = "redirect"
    /\ UNCHANGED <<books, requestLocals>>

\* POST /add_book
add_book(isbnInput, titleInput, publication_year, author_id) ==
    /\ pc = "idle"
    /\ LET isbn == strip(isbnInput)
           title == strip(titleInput)
       IN
       IF isbn = <<>> \/ title = <<>> \/ publication_year = <<>> \/ author_id = <<>> THEN
           /\ flash' = Flash("error", "All fields are required.")
           /\ UNCHANGED books
       ELSE IF ~isdigit(isbn) \/ Len(isbn) # 13 THEN
           /\ flash' = Flash("error", "ISBN must be a 13-digit number.")
           /\ UNCHANGED books
       ELSE IF ~int(publication_year).ok \/ ~int(author_id).ok THEN
           /\ flash' = Flash("error", "Error adding book")
           /\ UNCHANGED books
       ELSE
           LET new_book == [id |-> NextId(books),
                            isbn |-> isbn,
                            title |-> title,
                            publication_year |-> int(publication_year).value,
                            rating |-> NULL,
                            author_id |-> int(author_id).value]
           IN
           IF BookIntegrityError(new_book) THEN
               /\ flash' = Flash("error", "Error: ISBN already exists.")
               /\ UNCHANGED books
           ELSE
               /\ new_book.id <= MaxId
               /\ books' = books \cup {new_book}
               /\ flash' = Flash("success", "Book added successfully!")
    /\ pc' = "redirect"
    /\ UNCHANGED <<authors, requestLocals>>

\* Book.query.get_or_404 / Author.query.get
Get(table, id) == {r \in table : r.id = id}

RatingAccepted_FromZero(rating) ==
    /\ rating # <<>>
    /\ isdigit(rating)
    /\ LET n == int(rating) IN n.ok /\ 0 <= n.value /\ n.value <= 10

\* book_detail line 169: the condition under which the rating is stored
RatingAccepted(rating) ==
    /\ rating # <<>>
    /\ isdigit(rating)
    /\ LET n == int(rating) IN n.ok /\ 1 <= n.value /\ n.value <= 10

\* book_detail line 169: isdigit() holds and int() raises ValueError
RatingRaises(rating) == rating # <<>> /\ isdigit(rating) /\ ~int(rating).ok

\* POST /book/<book_id>
book_detail(book_id, rating) ==
    /\ pc = "idle"
    /\ IF Get(books, book_id) = {} THEN
           /\ flash' = Flash("error", "Error loading book details")
           /\ UNCHANGED books
       ELSE IF RatingRaises(rating) THEN
           /\ flash' = Flash("error", "Error updating rating")
           /\ UNCHANGED books
       ELSE IF RatingAccepted(rating) THEN
           /\ flash' = Flash("success", "Rating updated")
           /\ LET n == int(rating).value IN
              books' = {IF b.id = book_id THEN [b EXCEPT !.rating = n] ELSE b : b \in books}
       ELSE
           /\ flash' = Flash("error", "Invalid rating. Please enter a number between 1 and 10.")
           /\ UNCHANGED books
    /\ pc' = "redirect"
    /\ UNCHANGED <<authors, requestLocals>>

\* db.session.delete(author): the relationship cascades to the author's books
DeleteAuthorCascade(table, author) == {b \in table : b.author_id # author.id}

delete_book_AlwaysDeletesAuthor(book_id) ==
    /\ pc = "idle"
    /\ IF Get(books, book_id) = {} THEN
           /\ flash' = Flash("error", "Error deleting book")
           /\ UNCHANGED catalogVars
       ELSE
           LET book == CHOOSE b \in Get(books, book_id) : TRUE
               author == Get(authors, book.author_id)
           IN
           /\ authors' = authors \ author
           /\ books' = {b \in books \ {book} : author = {} \/ b.author_id # book.author_id}
           /\ flash' = Flash("success", "Book and author deleted successfully!")
    /\ pc' = "redirect"
    /\ UNCHANGED requestLocals

\* POST /book/<book_id>/delete
delete_book(book_id) ==
    /\ pc = "idle"
    /\ IF Get(books, book_id) = {} THEN
           /\ flash' = Flash("error", "Error deleting book")
           /\ UNCHANGED catalogVars
       ELSE
           LET book == CHOOSE b \in Get(books, book_id) : TRUE
               author_id == book.author_id
               remaining == books \ {book}
               author == Get(authors, author_id)
           IN
           IF {b \in remaining : b.author_id = author_id} = {} /\ author # {} THEN
               /\ authors' = authors \ author
               /\ books' = DeleteAuthorCascade(remaining, CHOOSE a \in author : TRUE)
               /\ flash' = Flash("success", "Book and author deleted successfully!")
           ELSE
               /\ books' = remaining
               /\ UNCHANGED authors
               /\ flash' = Flash("success", "Book deleted successfully!")
    /\ pc' = "redirect"
    /\ UNCHANGED requestLocals

\* POST /author/<author_id>/delete
delete_author(author_id) ==
    /\ pc = "idle"
    /\ IF Get(authors, author_id) = {} THEN
           /\ flash' = Flash("error", "Error deleting author")
           /\ UNCHANGED catalogVars
       ELSE
           LET author == CHOOSE a \in Get(authors, author_id) : TRUE IN
           /\ authors' = authors \ {author}
           /\ books' = DeleteAuthorCascade(books, author)
           /\ flash' = Flash("success", "Author and their books deleted successfully!")
    /\ pc' = "redirect"
    /\ UNCHANGED requestLocals

-----------------------------------------------------------------------------
(* GET /recommend *)

Unset == [kind |-> "unset"]
None == [kind |-> "None"]

\* the URL requested from the cover service and response.url of its answer
CoverRequest(isbn) == [method |-> "GET", host |-> "covers.openlibrary.org", isbn |-> isbn]
ResponseUrl(isbn) == [kind |-> "url", isbn |-> isbn]

\* what requests.get can do: answer with a status, raise a RequestException
\* (timeout, connection error), or raise anything else
FetchOutcomes == {"200", "404", "RequestException", "Exception"}
ExceptionKinds == {"RequestException", "Exception", "AttributeError"}

\* line 63 and line 65: cover_image after the fetch
CoverImage_AnyStatus(outcome, isbn) ==
    IF outcome \in {"200", "404"} THEN ResponseUrl(isbn) ELSE None

CoverImage(outcome, isbn) == IF outcome = "200" THEN ResponseUrl(isbn) ELSE None

\* line 64: except requests.RequestException
CoverFetchCatches(e) == e = "RequestException"
RecommendationCatches_TransportOnly(e) == e = "RequestException"

\* line 75: except Exception
RecommendationCatches(e) == e \in ExceptionKinds
\* line 342: except Exception
RouteCatches(e) == e \in ExceptionKinds

\* get_book_recommendation returns value to recommend, lines 336-341: the page
\* is rendered with it, after the error message when it is None
Return(value) ==
    /\ recommendation' = value
    /\ rendered' = value
    /\ flash' = IF value # {} THEN flash
                ELSE Flash("error", "No books available for recommendation.")
    /\ pc' = "rendered"

\* an exception raised in the body of get_book_recommendation, outside the
\* inner try: caught at line 75, else at line 342, else it leaves the handler
Raise(e) ==
    IF RecommendationCatches(e) THEN Return({})
    ELSE IF RouteCatches(e) THEN
        /\ flash' = Flash("error", "Error generating recommendation")
        /\ rendered' = {}
        /\ pc' = "rendered"
        /\ UNCHANGED recommendation
    ELSE
        /\ pc' = "unhandled"
        /\ UNCHANGED <<flash, rendered, recommendation>>

recommend_NoEmptyCheck ==
    /\ pc = "idle"
    /\ snapshot' = books
    /\ calls' = <<>>
    /\ pc' = "select"
    /\ UNCHANGED <<catalogVars, flash, rendered, recommendation, selected_book, cover_image>>

\* recommend line 335 and get_book_recommendation lines 43-44
recommend ==
    /\ pc = "idle"
    /\ snapshot' = books
    /\ calls' = <<>>
    /\ IF books = {} THEN Return({})
       ELSE /\ pc' = "select"
            /\ UNCHANGED <<flash, rendered, recommendation>>
    /\ UNCHANGED <<catalogVars, selected_book, cover_image>>

\* lines 47-55: a random book among the top rated, or among all when none is rated
Candidates(list) ==
    LET rated_books == {b \in list : b.rating # NULL} IN
    IF rated_books # {} THEN
        LET max_rating == CHOOSE m \in {b.rating : b \in rated_books} :
                              \A b \in rated_books : b.rating <= m
        IN {b \in rated_books : b.rating = max_rating}
    ELSE list

select_book ==
    /\ pc = "select"
    /\ \E book \in Candidates(snapshot) : selected_book' = {book}
    /\ pc' = "fetch"
    /\ UNCHANGED <<catalogVars, flash, snapshot, cover_image, calls, recommendation, rendered>>

Reason_NotNull(book) ==
    IF book.rating = NULL
    THEN "Recommended for its high rating."
    ELSE "Recommended for its popularity."

\* line 72
Reason(book) ==
    IF book.rating # NULL /\ book.rating # 0
    THEN "Recommended for its high rating."
    ELSE "Recommended for its popularity."

\* lines 67-73; selected_book.author is None, and .name raises, when no author
\* row has the book's author_id
build_recommendation(book, cover) ==
    LET author == Get(authors, book.author_id) IN
    IF author = {} THEN Raise("AttributeError")
    ELSE Return({[title |-> book.title,
                  author |-> (CHOOSE a \in author : TRUE).name,
                  isbn |-> book.isbn,
                  cover_image |-> cover,
                  reason |-> Reason(book)]})

fetch_cover_Twice(outcome) ==
    /\ pc = "fetch"
    /\ LET book == CHOOSE b \in selected_book : TRUE
           call == [request |-> CoverRequest(book.isbn), outcome |-> outcome]
       IN
       /\ calls' = calls \o <<call, call>>
       /\ IF outcome \in ExceptionKinds /\ ~CoverFetchCatches(outcome) THEN
              /\ Raise(outcome)
              /\ UNCHANGED cover_image
          ELSE
              /\ cover_image' = CoverImage(outcome, book.isbn)
              /\ build_recommendation(book, cover_image')
    /\ UNCHANGED <<catalogVars, snapshot, selected_book>>

\* lines 58-73: the cover fetch, then the Suggestion built from the selected book
fetch_cover(outcome) ==
    /\ pc = "fetch"
    /\ LET book == CHOOSE b \in selected_book : TRUE IN
       /\ calls' = Append(calls, [request |-> CoverRequest(book.isbn), outcome |-> outcome])
       /\ IF outcome \in ExceptionKinds /\ ~CoverFetchCatches(outcome) THEN
              /\ Raise(outcome)
              /\ UNCHANGED cover_image
          ELSE
              /\ cover_image' = CoverImage(outcome, book.isbn)
              /\ build_recommendation(book, cover_image')
    /\ UNCHANGED <<catalogVars, snapshot, selected_book>>

\* the page that ends a request: the redirect target of a catalog handler, or
\* recommend.html; it shows the pending flash message, and the request's
\* locals are discarded
page_rendered ==
    /\ pc \in {"redirect", "rendered"}
    /\ pc' = "idle"
    /\ flash' = NoFlash
    /\ snapshot' = {}
    /\ selected_book' = {}
    /\ cover_image' = Unset
    /\ calls' = <<>>
    /\ recommendation' = {}
    /\ rendered' = {}
    /\ UNCHANGED catalogVars

Next ==
    \/ \E n \in NameInputs, d \in BOOLEAN : add_author(n, d)
    \/ \E i \in IsbnInputs, t \in TitleInputs, y \in YearInputs, a \in AuthorIdInputs :
           add_book(i, t, y, a)
    \/ \E b \in Ids, r \in RatingInputs : book_detail(b, r)
    \/ \E b \in Ids : delete_book(b)
    \/ \E a \in Ids : delete_author(a)
    \/ recommend
    \/ select_book
    \/ \E o \in FetchOutcomes : fetch_cover(o)
    \/ page_rendered

Spec == Init /\ [][Next]_vars

\* the /recommend request runs to its end: the handler is synchronous code
RecommendStep ==
    \/ select_book
    \/ \E o \in FetchOutcomes : fetch_cover(o)

FairSpec == Spec /\ WF_vars(RecommendStep)

-----------------------------------------------------------------------------
(* Properties *)

RecommendPcs == {"select", "fetch", "rendered"}

TheSelected == CHOOSE b \in selected_book : TRUE

IsCoverCall(c) == c.request.method = "GET" /\ c.request.host = "covers.openlibrary.org"
GenerativeConsulted ==
    \E i \in 1..Len(calls) : calls[i].request.host = "api-inference.huggingface.co"
CatalogConsulted ==
    \E i \in 1..Len(calls) : calls[i].request.host = "openlibrary.org"

RecommendOrder ==
    { <<"idle", "select">>, <<"idle", "rendered">>, <<"select", "fetch">>,
      <<"fetch", "rendered">>, <<"rendered", "idle">> }

C1_RequestShape ==
    /\ \A i \in 1..Len(calls) : IsCoverCall(calls[i])
    /\ pc = "select" => snapshot # {} /\ selected_book = {} /\ calls = <<>>
    /\ pc = "fetch" => selected_book # {} /\ selected_book \subseteq snapshot /\ calls = <<>>
    /\ (pc = "rendered" /\ snapshot # {}) =>
           /\ selected_book # {}
           /\ Len(calls) = 1
           /\ calls[1].request.isbn = TheSelected.isbn
    /\ \A d \in recommendation :
           /\ \A b \in snapshot : b.rating <= TheSelected.rating
           /\ d.title = TheSelected.title
           /\ d.isbn = TheSelected.isbn

ProvenanceSet ==
    { "AI suggestion from Hugging Face", "Because you liked 'T'",
      "Random suggestion from your library", "No books available" }

C5_RecommendTotal ==
    /\ [](pc # "unhandled")
    /\ [](pc = "rendered" =>
              /\ rendered = recommendation
              /\ flash # Flash("error", "Error generating recommendation"))
    /\ (pc \in RecommendPcs) ~> (pc = "rendered")

C5_Witness ==
    /\ pc = "rendered"
    /\ Len(calls) = 1
    /\ calls[1].outcome = "Exception"
    /\ rendered = {}

\* C6: a successful delete_book(b) removes b, removes b's author exactly when no
\* other book of that author remains, and leaves every other book and author
\* unchanged.
C6_DeleteBook ==
    [][ \A id \in Ids :
            (delete_book(id) /\ Get(books, id) # {}) =>
                LET b == CHOOSE x \in books : x.id = id
                    others == books \ {b}
                IN
                /\ books' = others
                /\ authors' = IF \E o \in others : o.author_id = b.author_id
                              THEN authors
                              ELSE {a \in authors : a.id # b.author_id}
      ]_vars

C6_Witness ==
    /\ pc = "redirect"
    /\ flash = Flash("success", "Book and author deleted successfully!")
    /\ books # {}
    /\ authors # {}

\* C7: no two books of the catalog share an ISBN (add_book rejects an ISBN that
\* a book already has).
C7_IsbnUnique == \A b1, b2 \in books : b1.isbn = b2.isbn => b1 = b2

\* the decimal numerals of 1..10, leading zeros dropped
RECURSIVE DropLeadingZeros(_)
DropLeadingZeros(s) ==
    IF s # <<>> /\ Head(s) = "0" THEN DropLeadingZeros(Tail(s)) ELSE s

Numeral(n) ==
    IF n = 10 THEN <<"1", "0">>
    ELSE <<CASE n = 1 -> "1" [] n = 2 -> "2" [] n = 3 -> "3" [] n = 4 -> "4" [] n = 5 -> "5"
             [] n = 6 -> "6" [] n = 7 -> "7" [] n = 8 -> "8" [] n = 9 -> "9">>

Denotes(s, n) == DropLeadingZeros(s) = Numeral(n)

\* what book_detail flashes for a book that exists
BookDetailAnswers ==
    { Flash("success", "Rating updated"),
      Flash("error", "Invalid rating. Please enter a number between 1 and 10."),
      Flash("error", "Error updating rating") }

\* the submitted texts that denote n, and those that denote no integer of 1..10
InputsDenoting == [n \in 1..10 |-> {r \in RatingInputs : Denotes(r, n)}]
InputsDenotingNothing == {r \in RatingInputs : \A n \in 1..10 : ~Denotes(r, n)}

\* books with the rating of book id set to n
WithRating(id, n) == {IF b.id = id THEN [b EXCEPT !.rating = n] ELSE b : b \in books}

=============================================================================
